---- MODULE Spec2Model ----
(***************************************************************************)
(* findlink: parallel search of a directory tree for the symbolic links    *)
(* that resolve to a target path (src/source/main.cc).                     *)
(*                                                                         *)
(* The model covers main (argument parsing, canonicalisation), doSearch    *)
(* (existence check, seed task, thread pool, join), searchThreadFunc (the  *)
(* worker loop with its lock, condition variable and runningCount) and     *)
(* searchTaskFunc (classification of the task path and the scan of one     *)
(* directory).                                                             *)
(*                                                                         *)
(* The filesystem is a finite tree of entries fixed at start.  Entry 0 is  *)
(* what the path handed to doSearch designates; entries 1..n are the       *)
(* entries below it, numbered breadth first, so that the enumeration       *)
(* order of a directory is the order of the numbers of its children.       *)
(*                                                                         *)
(* A step of a worker runs from one operation on queueLock or queueCond to *)
(* the next: what a thread does in between (classifying a path, resolving  *)
(* symlinks, walking the entries of a directory, printing) touches no      *)
(* state another thread reads.                                             *)
(***************************************************************************)
EXTENDS Integers, Sequences, FiniteSets, Bags, TLC

\* Bounds of the model.
MaxNodes == 3
MaxWorkers == 2

\* task == nullptr (the unique_ptr of the worker before a task is moved in).
NoTask == -1
\* The end iterator of a directory_iterator (entry 0 is never a child).
EndIter == 0
\* Exit status of a process ended by std::terminate (abort, SIGABRT).
AbortStatus == 134
\* No value yet (doSearch has not returned / the process has not exited).
NoCode == -1
\* A decrement of the unsigned 64-bit counter at 0 wraps to 2^64 - 1; the
\* value 2^64 - 1 is written WrapValue here (it exceeds TLC's integers).
WrapValue == -2

VARIABLES
    kind,          \* kind[n]: what entry n is (see Kinds)
    parent,        \* parent[n]: the directory entry n (n >= 1) lives in
    poolSize,      \* std::thread::hardware_concurrency()
    argv,          \* the command line as main saw it; entry = "search" once
                   \* doSearch has been called
    mainpc,        \* position of the main thread
    taskQueue,     \* taskQueue, a FIFO of entries (the searchDir of each SearchTask)
    runningCount,  \* runningCount
    queueLock,     \* TRUE while some thread owns queueLock
    workers,       \* the worker threads: a bag of thread states (see Thread)
    examined,      \* entries a loop body of a scan has looked at
    pushed,        \* bag of entries pushed by a scan (line 112)
    enqueued,      \* the entries pushed onto taskQueue, in the order of the
                   \* pushes (lines 156 and 112)
    dequeued,      \* the entries taken from taskQueue, in the order of the
                   \* pops (lines 135-136)
    stdout,        \* bag of lines written to stdout
    stderr,        \* bag of lines written to stderr
    ret,           \* return value of doSearch, NoCode before it returns
    exitCode       \* exit status of the process, NoCode while it runs

vars == <<kind, parent, poolSize, argv, mainpc, taskQueue, runningCount,
          queueLock, workers, examined, pushed, enqueued, dequeued, stdout,
          stderr, ret, exitCode>>

fsVars == <<kind, parent, poolSize>>
poolVars == <<taskQueue, runningCount, queueLock, workers, examined, pushed,
              enqueued, dequeued>>

----------------------------------------------------------------------------
\* The filesystem.

\* Kinds of the path handed to doSearch.
\*   missing   nothing there, or a dangling symlink (exists() is false)
\*   dir       a directory that can be opened
\*   dirDenied a directory whose directory_iterator cannot be constructed
\*   file      a regular file (or other non-directory, non-symlink)
\*   linkT / linkO / linkErr   symlink to a non-directory: resolution equals
\*             Target / is another path / throws
\*   linkDirT  symlink to a directory, which is Target (for the path handed
\*             to doSearch the code never resolves a symlink to a
\*             directory, so that one whose directory is not Target takes
\*             the same steps)
RootKinds == {"missing", "dir", "dirDenied", "file", "linkT", "linkO",
              "linkErr", "linkDirT"}

\* Kinds of an entry met by a directory_iterator.
\*   dirStatErr a directory (by its d_type) whose status() fails, as under a
\*              parent without search permission
\*   linkDirO   symlink that resolves to a path other than Target, here a
\*              directory: the entry for which both entry.is_symlink() and
\*              entry.is_directory() hold (the loop tests is_symlink first
\*              and never asks what the symlink leads to, so that a symlink
\*              to a file other than Target takes the same steps)
\*   incErr     not an entry: advancing the iterator to this position throws
\*              and the entries behind it are never read
ChildKinds == {"dir", "dirDenied", "dirStatErr", "file", "linkT", "linkDirO",
               "linkErr", "incErr"}

\* What the entries behind a failing position of an iterator are taken to
\* be: the code never reads them, so one that would be printed and one that
\* would be pushed stand for all.
UnreadKinds == {"linkT", "dir"}

\* The command line before main has looked at it.
NoArgs == [entry |-> "unset", opt |-> "none", npos |-> 0, targetOk |-> TRUE]

\* The command line of a run that reached doSearch.
SearchArgs == [entry |-> "search", opt |-> "none", npos |-> 2, targetOk |-> TRUE]

Nodes == DOMAIN kind
Root == 0

\* Faulty variant, for the sensitivity of the properties: the existence check passes for every path.
ExistsAlways(k) == TRUE

\* std::filesystem::exists(p), line 48.
Exists(k) == k # "missing"

\* std::filesystem::is_directory(p), line 65: follows symlinks.
IsDirectory(k) == k \in {"dir", "dirDenied", "dirStatErr", "linkDirT", "linkDirO"}

\* Faulty variant, for the sensitivity of the properties: no path is recognised as a symlink.
IsSymlinkNever(k) == FALSE

\* Faulty variant, for the sensitivity of the properties: every path that is not a directory is taken for a symlink.
IsSymlinkAny(k) == TRUE

\* std::filesystem::is_symlink(p), lines 66 and 92: does not follow.
IsSymlink(k) == k \in {"linkT", "linkO", "linkErr", "linkDirT", "linkDirO"}

\* status(p) throws filesystem_error (is_directory at line 65 is outside
\* every try block).
StatusThrows(k) == k = "dirStatErr"

\* read_symlink + canonical, lines 68-74 and 94-102: the resolution of a
\* symlink compared with target, or "error" when it throws.
Resolve(k) ==
    CASE k \in {"linkT", "linkDirT"} -> "target"
      [] k \in {"linkO", "linkDirO"} -> "other"
      [] OTHER -> "error"

\* directory_iterator(searchDir), line 90: can it be constructed?
CanOpen(k) == k \in {"dir", "linkDirT", "linkDirO"}

\* entry.is_directory() && filename != "." && filename != "..", lines 107-109
\* (is_directory follows a symlink; a directory_iterator never yields the two
\* pseudo-entries).
IsTraversableDir(k) == k \in {"dir", "dirDenied", "dirStatErr", "linkDirO"}

\* std::filesystem::canonical(argv[optind + 1]), line 216: what the
\* canonical path designates; "throws" when canonical throws.
Canonical(k) ==
    CASE k \in {"dir", "linkDirT", "linkDirO"} -> "dir"
      [] k = "dirDenied" -> "dirDenied"
      [] k \in {"file", "linkT", "linkO"} -> "file"
      [] OTHER -> "throws"

Children(d) == {n \in Nodes : n # Root /\ parent[n] = d}

Min(S) == CHOOSE x \in S : \A y \in S : x <= y

\* begin() of the directory_iterator over d.
FirstChild(d) == IF Children(d) = {} THEN EndIter ELSE Min(Children(d))

\* operator++ of the directory_iterator.
NextEntry(n) ==
    LET later == {m \in Children(parent[n]) : m > n}
    IN  IF later = {} THEN EndIter ELSE Min(later)

----------------------------------------------------------------------------
\* Output.

Line(tag, n) == <<tag, n>>
Emit(out, tag, n) == out (+) SetToBag({Line(tag, n)})
Count(out, tag, n) == CopiesIn(Line(tag, n), out)

\* printf("%s\n", path), lines 76 and 104.
Matches(n) == Count(stdout, "match", n)

----------------------------------------------------------------------------
\* Threads.  The worker threads run the same code and have no identity of
\* their own, so the pool is the bag of their states.
\*   pc    position in searchThreadFunc / searchTaskFunc
\*   task  the task the thread holds (task->searchDir), or NoTask
\*   iter  the entry its directory_iterator is at, or EndIter
\*   lock  TRUE while its unique_lock owns queueLock
\* A thread with pc = "wait" is blocked inside queueCond.wait.
Thread(p, t, i, l) == [pc |-> p, task |-> t, iter |-> i, lock |-> l]

Copies(r, n) == [x \in (IF n > 0 THEN {r} ELSE {}) |-> n]

\* The pool ws with one thread in state r now in state r2.
Move(ws, r, r2) == (ws (-) SetToBag({r})) (+) SetToBag({r2})

----------------------------------------------------------------------------
\* Initial states.

Trees(n) ==
    {p \in [1..n -> 0..n] :
        /\ \A i \in 1..n : p[i] < i
        /\ \A i \in 1..n, j \in 1..n : i < j => p[i] <= p[j]}

Init ==
    /\ \E n \in 0..MaxNodes :
         /\ \E rk \in RootKinds, ck \in [1..n -> ChildKinds] :
               kind = [i \in 0..n |-> IF i = 0 THEN rk ELSE ck[i]]
         /\ parent \in Trees(n)
         /\ \A i \in 1..n :
               /\ CanOpen(kind[parent[i]])
               /\ parent[i] # Root => ~IsSymlink(kind[parent[i]])
         /\ \A i \in 1..n, j \in 1..n :
               (kind[i] = "incErr" /\ parent[j] = parent[i] /\ j > i)
                  => kind[j] \in UnreadKinds
    /\ poolSize \in 0..MaxWorkers
    /\ argv = NoArgs
    /\ mainpc = "start"
    /\ taskQueue = <<>>
    /\ runningCount = 0
    /\ queueLock = FALSE
    /\ workers = Copies(Thread("unstarted", NoTask, EndIter, FALSE), poolSize)
    /\ examined = {}
    /\ pushed = EmptyBag
    /\ enqueued = <<>>
    /\ dequeued = <<>>
    /\ stdout = EmptyBag
    /\ stderr = EmptyBag
    /\ ret = NoCode
    /\ exitCode = NoCode

Workers == BagToSet(workers)

----------------------------------------------------------------------------
\* The main thread.

\* Leave main with a status after an error message and the usage text
\* (usage() prints to stdout).
ExitWithUsage(errTag, code) ==
    /\ stderr' = IF errTag = "" THEN stderr ELSE Emit(stderr, errTag, 0)
    /\ stdout' = Emit(stdout, "usage", 0)
    /\ exitCode' = code
    /\ mainpc' = "exited"
    /\ UNCHANGED <<fsVars, poolVars, ret>>

\* An exception leaves main or a worker thread: std::terminate.
Terminate(n) ==
    /\ stderr' = Emit(stderr, "terminate", n)
    /\ exitCode' = AbortStatus
    /\ mainpc' = "aborted"

\* The initial value of runningCount, lines 126-127.
InitialRunningCount(n) == n

\* doSearch up to the join, lines 47-163, for the path kind k: the existence
\* check, the seed task, runningCount and the creation of the threads.  A
\* thread that is created late behaves as one that is scheduled late, so
\* the threads are created in one step.
DoSearchEnter(k) ==
    IF ~Exists(k)
    THEN /\ stderr' = Emit(stderr, "notexist", 0)
         /\ ret' = 1
         /\ exitCode' = ret'
         /\ mainpc' = "exited"
         /\ UNCHANGED <<poolVars, stdout>>
    ELSE /\ taskQueue' = <<Root>>
         /\ enqueued' = <<Root>>
         /\ runningCount' = InitialRunningCount(poolSize)
         /\ workers' = Copies(Thread("top", NoTask, EndIter, FALSE), poolSize)
         /\ mainpc' = "joining"
         /\ UNCHANGED <<queueLock, examined, pushed, dequeued, stdout,
                        stderr, ret, exitCode>>

\* main, lines 187-199: the first option getopt_long returns.
MainOption(opt) ==
    /\ mainpc = "start"
    /\ opt \in {"help", "unknown"}
    /\ \E npos \in 0..3 :
         argv' = [entry |-> "main", opt |-> opt, npos |-> npos, targetOk |-> TRUE]
    /\ IF opt = "help" THEN ExitWithUsage("", 0)
                       ELSE ExitWithUsage("unknownopt", 0)

\* main, lines 203-223: a wrong number of positional arguments.
MainArgCount(npos) ==
    /\ mainpc = "start"
    /\ npos \in {0, 1, 3}
    /\ argv' = [entry |-> "main", opt |-> "none", npos |-> npos, targetOk |-> TRUE]
    /\ CASE npos = 0 -> ExitWithUsage("missingtarget", 1)
         [] npos = 1 -> ExitWithUsage("missingdir", 1)
         [] OTHER -> ExitWithUsage("toomuch", 1)

\* main, lines 214-225: two positional arguments.  canonical() of either
\* throws when the path does not exist, and main catches nothing; otherwise
\* doSearch is called with the canonical path.
MainSearch(targetOk) ==
    /\ mainpc = "start"
    /\ IF ~targetOk \/ Canonical(kind[Root]) = "throws"
       THEN /\ argv' = [entry |-> "main", opt |-> "none", npos |-> 2,
                        targetOk |-> targetOk]
            /\ Terminate(0)
            /\ UNCHANGED <<fsVars, poolVars, stdout, ret>>
       ELSE /\ argv' = SearchArgs
            /\ kind' = [kind EXCEPT ![Root] = Canonical(@)]
            /\ DoSearchEnter(kind'[Root])
            /\ UNCHANGED <<parent, poolSize>>

\* doSearch called with the search path as it is: the caller hands over
\* paths it resolved itself and, as main does at line 225, ends with the
\* result of doSearch.
DirectCall ==
    /\ mainpc = "start"
    /\ argv' = SearchArgs
    /\ DoSearchEnter(kind[Root])
    /\ UNCHANGED fsVars

\* doSearch, lines 165-170, and the return of main, line 225.
Join ==
    /\ mainpc = "joining"
    /\ \A r \in Workers : r.pc = "exited"
    /\ ret' = 0
    /\ exitCode' = ret'
    /\ mainpc' = "exited"
    /\ UNCHANGED <<fsVars, argv, poolVars, stdout, stderr>>

----------------------------------------------------------------------------
\* The worker threads (searchThreadFunc, lines 128-153).

Running == mainpc = "joining"

\* queueCond.notify_one(), lines 114 and 140: one of the threads blocked in
\* wait, if there is one, returns from the wait and has to take the lock again.
NotifyOne(ws) ==
    IF \E v \in BagToSet(ws) : v.pc = "wait"
    THEN LET v == CHOOSE v \in BagToSet(ws) : v.pc = "wait"
         IN  Move(ws, v, [v EXCEPT !.pc = "woken"])
    ELSE ws

\* --runningCount on the atomic uint64_t, line 138.
Decrement(c) == IF c = 0 THEN WrapValue ELSE c - 1

\* taskQueue.size() > 0, line 134.
HasTask(q) == Len(q) > 0

\* Faulty variant, for the sensitivity of the properties: the front task is taken but not removed from the queue.
PopKeep(q) == q

\* taskQueue.pop(), line 136.
Pop(q) == Tail(q)

\* Faulty variant, for the sensitivity of the properties: a push onto a queue that is not empty is lost.
PushLossy(q, n) == IF q = <<>> THEN <<n>> ELSE q

\* Faulty variant, for the sensitivity of the properties: a push puts the task at the front of the queue.
PushFront(q, n) == <<n>> \o q

\* Faulty variant, for the sensitivity of the properties: a push puts the task into the queue twice.
PushTwice(q, n) == Append(Append(q, n), n)

\* taskQueue.push(...), line 112.
Push(q, n) == Append(q, n)

\* Faulty variant, for the sensitivity of the properties: a worker leaves as soon as at most one worker still runs.
AllIdleEarly(c) == c <= 1

\* runningCount == 0, line 139.
AllIdle(c) == c = 0

\* The places where a thread takes queueLock, and where it is once it has it:
\* line 133 (top of the loop), line 111 (before a push), and the return from
\* queueCond.wait (line 143).
AfterLock(p) ==
    CASE p = "top" -> "locked"
      [] p = "pushlock" -> "push"
      [] p = "woken" -> "incr"
      [] OTHER -> "none"

\* Faulty variant, for the sensitivity of the properties: the mutex is handed out while another thread owns it.
LockFreeAlways(l) == TRUE

\* std::mutex::lock() (the constructor of unique_lock, lines 111 and 133, and
\* the return from wait, line 143) goes through only when no thread owns
\* the mutex.
LockFree(l) == ~l

Acquire(r) ==
    /\ Running
    /\ AfterLock(r.pc) # "none"
    /\ LockFree(queueLock)
    /\ queueLock' = TRUE
    /\ workers' = Move(workers, r, [r EXCEPT !.pc = AfterLock(r.pc), !.lock = TRUE])
    /\ UNCHANGED <<fsVars, argv, mainpc, taskQueue, runningCount, examined,
                   pushed, enqueued, dequeued, stdout, stderr, ret, exitCode>>

\* Lines 134-136 and the end of the block at line 148: take the front task
\* and release the lock.
Dequeue(r) ==
    /\ Running
    /\ r.pc = "locked"
    /\ HasTask(taskQueue)
    /\ taskQueue' = Pop(taskQueue)
    /\ queueLock' = FALSE
    /\ dequeued' = Append(dequeued, Head(taskQueue))
    /\ workers' = Move(workers, r, Thread("task", Head(taskQueue), EndIter, FALSE))
    /\ UNCHANGED <<fsVars, argv, mainpc, runningCount, examined, pushed,
                   enqueued, stdout, stderr, ret, exitCode>>

\* Lines 138-141: the queue is empty and this was the last running worker.
ExitLoop(r) ==
    /\ Running
    /\ r.pc = "locked"
    /\ ~HasTask(taskQueue)
    /\ runningCount' = Decrement(runningCount)
    /\ AllIdle(runningCount')
    /\ workers' = NotifyOne(Move(workers, r, Thread("exited", NoTask, EndIter, FALSE)))
    /\ queueLock' = FALSE
    /\ UNCHANGED <<fsVars, argv, mainpc, taskQueue, examined, pushed,
                   enqueued, dequeued, stdout, stderr, ret, exitCode>>

\* Lines 138-143: the queue is empty and others still run: wait (the lock is
\* released as the thread blocks).
Wait(r) ==
    /\ Running
    /\ r.pc = "locked"
    /\ ~HasTask(taskQueue)
    /\ runningCount' = Decrement(runningCount)
    /\ ~AllIdle(runningCount')
    /\ workers' = Move(workers, r, Thread("wait", NoTask, EndIter, FALSE))
    /\ queueLock' = FALSE
    /\ UNCHANGED <<fsVars, argv, mainpc, taskQueue, examined, pushed,
                   enqueued, dequeued, stdout, stderr, ret, exitCode>>

\* condition_variable::wait may return without a notification.
SpuriousWakeup(r) ==
    /\ Running
    /\ r.pc = "wait"
    /\ workers' = Move(workers, r, [r EXCEPT !.pc = "woken"])
    /\ UNCHANGED <<fsVars, argv, mainpc, taskQueue, runningCount, queueLock,
                   examined, pushed, enqueued, dequeued, stdout, stderr, ret,
                   exitCode>>

\* Lines 144-145: back from wait with the lock held; ++runningCount, continue.
Resume(r) ==
    /\ Running
    /\ r.pc = "incr"
    /\ runningCount' = runningCount + 1
    /\ queueLock' = FALSE
    /\ workers' = Move(workers, r, Thread("top", NoTask, EndIter, FALSE))
    /\ UNCHANGED <<fsVars, argv, mainpc, taskQueue, examined, pushed,
                   enqueued, dequeued, stdout, stderr, ret, exitCode>>

----------------------------------------------------------------------------
\* searchTaskFunc, lines 62-123.

\* searchTaskFunc returns: the worker is back at the top of its loop.
Idle == Thread("top", NoTask, EndIter, FALSE)

\* Faulty variant, for the sensitivity of the properties: the scan goes on with the next entry after a match.
AfterMatchContinue(e) == NextEntry(e)

\* Where the scan goes after the match at entry e, line 105: it returns.
AfterMatch(e) == EndIter

\* Where the scan goes after an exception caught at line 116 for entry e:
\* on to the next entry.
AfterEntryError(e) == NextEntry(e)

\* The result of a stretch of the loop over the entries of a directory.
\*   stop    "push": the loop is at a subdirectory and needs the lock;
\*           "return": searchTaskFunc returns; "throw": the iterator threw
\*   at      the entry the iterator is at when the stretch ends
\*   seen    the entries the loop body looked at
\*   hits    the entries printed as matches (line 104)
\*   failed  the entries whose exception was caught at line 116
Stretch(st, e, seen, hits, failed) ==
    [stop |-> st, at |-> e, seen |-> seen, hits |-> hits, failed |-> failed]

Then(e, kindOfE, rest) ==
    [rest EXCEPT !.seen = @ \cup {e},
                 !.hits = IF kindOfE = "hit" THEN @ \cup {e} ELSE @,
                 !.failed = IF kindOfE = "failed" THEN @ \cup {e} ELSE @]

\* Lines 89-119: the loop from entry e on, up to the point where it takes
\* the lock, returns or throws.
RECURSIVE ScanFrom(_)
ScanFrom(e) ==
    IF e = EndIter
    THEN Stretch("return", EndIter, {}, {}, {})
    ELSE
      CASE kind[e] = "incErr" ->
             \* the iterator throws, caught at line 120
             Stretch("throw", e, {}, {}, {})
        [] IsSymlink(kind[e]) /\ Resolve(kind[e]) = "target" ->
             Then(e, "hit", ScanFrom(AfterMatch(e)))
        [] IsSymlink(kind[e]) /\ Resolve(kind[e]) = "other" ->
             Then(e, "passed", ScanFrom(NextEntry(e)))
        [] IsSymlink(kind[e]) /\ Resolve(kind[e]) = "error" ->
             Then(e, "failed", ScanFrom(AfterEntryError(e)))
        [] ~IsSymlink(kind[e]) /\ IsTraversableDir(kind[e]) ->
             Stretch("push", e, {e}, {}, {})
        [] OTHER ->
             Then(e, "passed", ScanFrom(NextEntry(e)))

\* The thread that ran the stretch res of the scan of directory t.
AfterScan(t, res) ==
    IF res.stop = "push" THEN Thread("pushlock", t, res.at, FALSE) ELSE Idle

\* What the stretch res of the scan of directory t wrote and looked at.
ScanOutput(t, res) ==
    /\ examined' = examined \cup res.seen
    /\ stdout' = stdout (+) SetToBag({Line("match", h) : h \in res.hits})
    /\ stderr' = stderr (+) SetToBag({Line("fserr", f) : f \in res.failed})
                        (+) (IF res.stop = "throw"
                             THEN SetToBag({Line("direrr", t)})
                             ELSE EmptyBag)

\* Lines 65-122 up to the first push: the type check of the task's path, the
\* resolution of a path that is a symlink to a non-directory, the
\* construction of the directory_iterator and the first stretch of the scan.
StartTask(r) ==
    /\ Running
    /\ r.pc = "task"
    /\ LET t == r.task
           k == kind[t]
       IN
       IF StatusThrows(k)
       THEN /\ Terminate(t)
            /\ UNCHANGED <<workers, examined, stdout>>
       ELSE
         /\ UNCHANGED <<mainpc, exitCode>>
         /\ IF ~IsDirectory(k)
            THEN
              /\ workers' = Move(workers, r, Idle)
              /\ UNCHANGED examined
              /\ IF IsSymlink(k)
                 THEN
                   CASE Resolve(k) = "target" ->
                          /\ stdout' = Emit(stdout, "match", t)
                          /\ UNCHANGED stderr
                     [] Resolve(k) = "other" ->
                          \* falls through to line 88: not a directory
                          /\ stderr' = Emit(stderr, "direrr", t)
                          /\ UNCHANGED stdout
                     [] OTHER ->
                          \* line 80, then falls through to line 88
                          /\ stderr' = Emit(Emit(stderr, "fserr", t), "direrr", t)
                          /\ UNCHANGED stdout
                 ELSE
                   UNCHANGED <<stdout, stderr>>
            ELSE
              IF CanOpen(k)
              THEN LET res == ScanFrom(FirstChild(t))
                   IN  /\ workers' = Move(workers, r, AfterScan(t, res))
                       /\ ScanOutput(t, res)
              ELSE /\ stderr' = Emit(stderr, "direrr", t)
                   /\ workers' = Move(workers, r, Idle)
                   /\ UNCHANGED <<examined, stdout>>
    /\ UNCHANGED <<fsVars, argv, taskQueue, runningCount, queueLock, pushed,
                   enqueued, dequeued, ret>>

\* Lines 111-115 and the loop up to the next push: push the subdirectory,
\* notify one waiter, release the lock and go on with the next entries.
PushTask(r) ==
    /\ Running
    /\ r.pc = "push"
    /\ taskQueue' = Push(taskQueue, r.iter)
    /\ pushed' = pushed (+) SetToBag({r.iter})
    /\ enqueued' = Append(enqueued, r.iter)
    /\ queueLock' = FALSE
    /\ LET res == ScanFrom(NextEntry(r.iter))
       IN  /\ workers' = NotifyOne(Move(workers, r, AfterScan(r.task, res)))
           /\ ScanOutput(r.task, res)
    /\ UNCHANGED <<fsVars, argv, mainpc, runningCount, dequeued, ret, exitCode>>

----------------------------------------------------------------------------
\* The specification.

Next ==
    \/ \E opt \in {"help", "unknown"} : MainOption(opt)
    \/ \E npos \in {0, 1, 3} : MainArgCount(npos)
    \/ \E targetOk \in BOOLEAN : MainSearch(targetOk)
    \/ DirectCall
    \/ Join
    \/ \E r \in Workers : Acquire(r)
    \/ \E r \in Workers : Dequeue(r)
    \/ \E r \in Workers : ExitLoop(r)
    \/ \E r \in Workers : Wait(r)
    \/ \E r \in Workers : SpuriousWakeup(r)
    \/ \E r \in Workers : Resume(r)
    \/ \E r \in Workers : StartTask(r)
    \/ \E r \in Workers : PushTask(r)

Spec == Init /\ [][Next]_vars

\* Fair scheduling: the threads that can take a step are not all held back
\* for ever, a free lock that is asked for is handed out, and wait returns
\* without a notification only finitely often.
LockStep == \E r \in Workers : Acquire(r)

OtherStep ==
    \E r \in Workers :
        \/ Dequeue(r) \/ ExitLoop(r) \/ Wait(r) \/ Resume(r)
        \/ StartTask(r) \/ PushTask(r)

FairSpec ==
    /\ Spec
    /\ WF_vars(Join)
    /\ WF_vars(OtherStep)
    /\ WF_vars(LockStep)
    /\ <>[][\A r \in Workers : ~SpuriousWakeup(r)]_vars

----------------------------------------------------------------------------
\* Properties.

\* The threads of the pool have been created.
PoolStarted == \E r \in Workers : r.pc # "unstarted"

\* Some thread holds a task or is working on one.
Busy(r) == r.task # NoTask \/ r.pc \in {"task", "pushlock", "push"}

\* std::terminate was called from a worker thread.
WorkerAborted == mainpc = "aborted" /\ PoolStarted

\* The process has stopped: main returned or std::terminate was called.
Stopped == mainpc \in {"exited", "aborted"}

\* Under fair scheduling every search stops: it returns or it is aborted,
\* and no worker stays blocked for ever.
PoolStops == (mainpc = "joining") ~> Stopped

\* n is a symlink child that resolves to Target.
IsMatch(n) == n # Root /\ IsSymlink(kind[n]) /\ Resolve(kind[n]) = "target"

\* n is the first symlink of its directory, in enumeration order, that
\* resolves to Target.
FirstMatch(n) ==
    /\ IsMatch(n)
    /\ \A m \in Children(parent[n]) : m < n => ~IsMatch(m)

\* No entry of the tree raises a filesystem error.
NoFaults ==
    \A n \in Nodes : kind[n] \in {"dir", "file", "linkT", "linkO", "linkDirT", "linkDirO"}

\* The number of positions of the sequence q that hold the task for entry n.
Occurrences(q, n) == Cardinality({i \in 1..Len(q) : q[i] = n})

\* The number of workers that hold the task for entry n (their unique_ptr
\* task, line 131, owns it).
HeldBy(n) ==
    BagCardinality([r \in {x \in Workers : x.task = n} |-> CopiesIn(r, workers)])

\* Lines 88-122 for one directory, all stretches of the loop together, from
\* entry e on: the entries it prints and the subdirectories it pushes.
RECURSIVE WholeScan(_)
WholeScan(e) ==
    LET res == ScanFrom(e)
    IN  IF res.stop = "push"
        THEN LET rest == WholeScan(NextEntry(res.at))
             IN  [hits |-> res.hits \cup rest.hits,
                  subdirs |-> {res.at} \cup rest.subdirs]
        ELSE [hits |-> res.hits, subdirs |-> {}]

\* What searchTaskFunc (lines 65-122) does with the task for entry t when it
\* runs to its end: the entries it prints and the tasks it pushes.
TaskResult(t) ==
    CASE ~IsDirectory(kind[t]) ->
           [hits |-> IF IsSymlink(kind[t]) /\ Resolve(kind[t]) = "target"
                     THEN {t} ELSE {},
            subdirs |-> {}]
      [] IsDirectory(kind[t]) /\ CanOpen(kind[t]) -> WholeScan(FirstChild(t))
      [] OTHER -> [hits |-> {}, subdirs |-> {}]

\* The tasks that come out of the task for entry t: itself, the tasks it
\* pushes and theirs.
RECURSIVE TasksFrom(_)
TasksFrom(t) == {t} \cup UNION {TasksFrom(c) : c \in TaskResult(t).subdirs}

\* The match lines of a run that executes the tasks one after the other,
\* starting with the seed: a function of the tree alone.
SequentialMatches == UNION {TaskResult(t).hits : t \in TasksFrom(Root)}

\* The entries whose path has been written to stdout.
MatchLines == {n \in Nodes : Matches(n) >= 1}

\* The number of workers whose unique_lock owns queueLock.
LockHolders ==
    BagCardinality([r \in {x \in Workers : x.lock} |-> CopiesIn(r, workers)])

\* The sections of the code inside the scope of a unique_lock: lines 133-148
\* ("locked", and "incr" after the wait) and lines 111-114 ("push").
InCriticalSection(r) == r.pc \in {"locked", "push", "incr"}

\* The worker that takes this step is one that owns queueLock.
StepOfLockHolder ==
    \E r \in Workers :
        r.lock /\ InCriticalSection(r) /\ CopiesIn(r, workers') < CopiesIn(r, workers)

\* doSearch has passed the existence check: the seed is pushed (line 156)
\* and runningCount is initialised (line 126).
SearchRan == enqueued # <<>>

\* The workers that count as running: those that have not left the loop
\* (line 141) and are not between --runningCount (line 138) and
\* ++runningCount (line 144).
RunningWorkers ==
    BagCardinality([r \in {x \in Workers : x.pc \notin {"exited", "wait", "woken", "incr"}}
                      |-> CopiesIn(r, workers)])

\* A directory in its own right (d_type DT_DIR), not one reached through a
\* symlink: what line 107 is left with after the is_symlink test of line 92.
IsRealDirectory(k) == k \in {"dir", "dirDenied", "dirStatErr"}

\* C1: for every tree and every pool of at least one worker every worker
\* leaves its loop and doSearch returns 0: a run that has started its pool
\* stops only with all workers out of their loops and the result 0.
C1_SearchReturnsZero ==
    (PoolStarted /\ poolSize >= 1 /\ Stopped)
        => (ret = 0 /\ \A r \in Workers : r.pc = "exited")

\* C2: when a worker has left its loop the queue is empty and no worker
\* holds or processes a task (so nothing can be pushed afterwards).
C2_NoPrematureExit ==
    (\E r \in Workers : r.pc = "exited")
        => (taskQueue = <<>> /\ \A r \in Workers : ~Busy(r))

C2_Witness ==
    /\ \E r \in Workers : r.pc = "exited"
    /\ \E r \in Workers : r.pc = "woken"
    /\ BagCardinality(pushed) >= 2
    /\ \E n \in Nodes : Matches(n) = 1

\* C3: every symlink that resolves to Target and is the first such symlink
\* of its directory has been reported exactly once when search returns,
\* wherever its directory is and whatever matches its ancestors hold
\* (stated for the trees without filesystem errors).
C3_FirstMatchesReported ==
    (ret = 0 /\ poolSize >= 1 /\ NoFaults /\ kind[Root] = "dir")
        => \A n \in Nodes : FirstMatch(n) => Matches(n) = 1

\* C4: in the scan of one directory the first symlink that resolves to
\* Target is emitted once, as the child's path, and the scan stops: no later
\* child is examined, emitted or enqueued, and a scan emits at most one match.
C4_FirstMatchStopsScan ==
    /\ \A n \in examined : IsMatch(n) => Matches(n) = 1
    /\ \A n \in Nodes : Matches(n) >= 1 => IsSymlink(kind[n])
    /\ \A a \in Nodes, b \in Nodes :
         (a # Root /\ b # Root /\ parent[a] = parent[b] /\ a < b)
           => /\ IsMatch(a) => (b \notin examined /\ Matches(b) = 0
                                 /\ CopiesIn(b, pushed) = 0)
              /\ ~(Matches(a) >= 1 /\ Matches(b) >= 1)

C4_Witness ==
    /\ ret = 0
    /\ \E a \in Nodes, b \in Nodes :
         /\ a # Root /\ b # Root /\ parent[a] = parent[b] /\ a < b
         /\ IsMatch(a) /\ a \in examined /\ Matches(a) = 1
         /\ IsMatch(b)

\* C5: over a whole run a matching symlink path is written to stdout at
\* most once, for any number of workers and any interleaving.
C5_NoDuplicateMatch == \A n \in Nodes : Matches(n) <= 1

C5_Witness ==
    /\ ret = 0
    /\ poolSize >= 2
    /\ \E a \in Nodes, b \in Nodes : a # b /\ Matches(a) = 1 /\ Matches(b) = 1

\* C6: a filesystem error met by a worker never ends a worker and never
\* aborts the run.
C6_NoWorkerAbort == ~WorkerAborted

\* C7: doSearch on a root that does not exist reports the error and returns
\* 1 at once: nothing is enqueued, no thread is started, stdout stays empty.
C7_MissingRoot ==
    (argv.entry = "search" /\ kind[Root] = "missing")
        => /\ ret = 1
           /\ mainpc = "exited"
           /\ taskQueue = <<>>
           /\ ~PoolStarted
           /\ runningCount = 0
           /\ pushed = EmptyBag
           /\ stdout = EmptyBag
           /\ stderr = SetToBag({Line("notexist", 0)})

C7_Witness ==
    /\ argv.entry = "search"
    /\ kind[Root] = "missing"
    /\ poolSize >= 1
    /\ ret = 1

\* C8: with two positional arguments and a SEARCH_DIR that does not exist
\* the program exits with code 1 after one diagnostic line, without a
\* search and without output on stdout.
C8_MissingSearchDirExitsOne ==
    (argv.entry = "main" /\ argv.opt = "none" /\ argv.npos = 2
        /\ argv.targetOk /\ kind[Root] = "missing")
        => /\ exitCode = 1
           /\ BagCardinality(stderr) = 1
           /\ stdout = EmptyBag
           /\ ~PoolStarted

\* C9: an unknown flag is reported with the usage text and the program
\* exits with a non-zero code without a search.
C9_UnknownFlagFails ==
    (argv.entry = "main" /\ argv.opt = "unknown")
        => /\ exitCode \notin {0, NoCode}
           /\ Count(stdout, "usage", 0) = 1
           /\ ~PoolStarted

\* C10: a root that is itself a symlink resolving to Target is emitted as a
\* match exactly once, whether Target is a file or a directory.
C10_SymlinkRootReported ==
    (argv.entry = "search" /\ poolSize >= 1 /\ ret = 0
        /\ IsSymlink(kind[Root]) /\ Resolve(kind[Root]) = "target")
        => Matches(Root) = 1

\* C11: a task whose path is a symlink to a non-directory is complete after
\* the resolve-and-compare step, whatever the resolution gives: the path is
\* not enumerated as a directory, nothing is enqueued, and stderr holds no
\* diagnostic other than that of a failed resolution.
C11_SymlinkTaskCompletes ==
    (argv.entry = "search" /\ IsSymlink(kind[Root]) /\ ~IsDirectory(kind[Root]))
        => /\ Count(stderr, "direrr", Root) = 0
           /\ pushed = EmptyBag
           /\ examined = {}

\* C12: a seed path that exists and is neither a directory nor a symlink is
\* a no-op: nothing is written to stdout or stderr, nothing is examined or
\* enqueued, no thread is left unable to go on, and the run can only stop
\* with every worker out of its loop and doSearch returning 0.
C12_PlainSeedIsNoOp ==
    (argv.entry = "search" /\ kind[Root] = "file")
        => /\ stdout = EmptyBag
           /\ stderr = EmptyBag
           /\ pushed = EmptyBag
           /\ examined = {}
           /\ mainpc # "aborted"
           /\ mainpc = "joining" => ENABLED (Join \/ LockStep \/ OtherStep)
           /\ Stopped => (ret = 0 /\ \A r \in Workers : r.pc = "exited")

C12_Witness ==
    /\ argv.entry = "search"
    /\ kind[Root] = "file"
    /\ poolSize >= 2
    /\ ret = 0
    /\ \A r \in Workers : r.pc = "exited"

\* C13: task exclusivity.  In every reachable state the task of an entry is
\* in at most one place, one position of the queue or the hands of one
\* worker: it is never twice in the queue, never held by two workers, never
\* both queued and held; and a task is dequeued at most once: a queued task
\* has not been dequeued yet and a held task has been dequeued exactly once.
C13_TaskExclusive ==
    /\ \A i \in 1..Len(taskQueue), j \in 1..Len(taskQueue) :
         i < j => taskQueue[i] # taskQueue[j]
    /\ \A i \in 1..Len(dequeued), j \in 1..Len(dequeued) :
         i < j => dequeued[i] # dequeued[j]
    /\ \A i \in 1..Len(taskQueue), j \in 1..Len(dequeued) :
         taskQueue[i] # dequeued[j]
    /\ \A r \in Workers :
         r.task # NoTask
            => /\ CopiesIn(r, workers) = 1
               /\ \A r2 \in Workers : r2.task = r.task => r2 = r
               /\ \A i \in 1..Len(taskQueue) : taskQueue[i] # r.task
               /\ \E j \in 1..Len(dequeued) : dequeued[j] = r.task

C13_Witness ==
    /\ \E a \in Nodes, b \in Nodes :
         a # b /\ HeldBy(a) = 1 /\ HeldBy(b) = 1
    /\ taskQueue # <<>>
    /\ Len(dequeued) >= 2

\* C14: schedule independence of the result.  Every run of doSearch that
\* returns, with any pool of at least one worker and any interleaving, has
\* written the same set of match lines: the set a run that executes the
\* tasks one after the other writes, which depends on the tree alone.
C14_ResultIndependentOfSchedule ==
    (ret = 0 /\ poolSize >= 1) => MatchLines = SequentialMatches

C14_Witness ==
    /\ ret = 0
    /\ poolSize >= 2
    /\ Len(dequeued) >= 2
    /\ \E a \in MatchLines, b \in MatchLines : a # b /\ parent[a] # parent[b]
    /\ MatchLines = SequentialMatches

\* C15: lock discipline.  queueLock is owned by at most one worker, and only
\* inside the dequeue / counter / wait section of the loop or the push of a
\* new task: a worker that classifies, resolves or enumerates never owns
\* it.  Once the pool runs, every step that changes taskQueue or
\* runningCount is a step of the worker that owns the lock.
C15_LockDiscipline ==
    /\ [](/\ LockHolders = (IF queueLock THEN 1 ELSE 0)
          /\ \A r \in Workers : r.lock => InCriticalSection(r)
          /\ \A r \in Workers : r.pc \in {"task", "pushlock"} => ~r.lock)
    /\ [][(Running /\ (taskQueue' # taskQueue \/ runningCount' # runningCount))
            => StepOfLockHolder]_vars

C15_Witness ==
    /\ queueLock
    /\ \E r \in Workers : r.lock /\ r.pc = "push"
    /\ \E r \in Workers : ~r.lock /\ r.pc \in {"task", "pushlock"}

\* C16: FIFO order.  The tasks are dequeued in the order of their pushes:
\* the dequeued tasks followed by the queue are the pushed tasks in push
\* order, so a task pushed before another one is dequeued before it.
C16_FifoOrder ==
    /\ enqueued = dequeued \o taskQueue
    /\ \A i \in 1..Len(enqueued), j \in 1..Len(dequeued) :
         (i < Len(enqueued) /\ dequeued[j] = enqueued[i + 1])
            => \E h \in 1..(j - 1) : dequeued[h] = enqueued[i]

C16_Witness ==
    /\ Len(dequeued) = MaxNodes + 1
    /\ dequeued = enqueued
    /\ \E i \in 1..Len(dequeued), j \in 1..Len(dequeued) :
         i < j /\ dequeued[i] > dequeued[j]

\* C17: an error on one child of a directory, an error of the iterator
\* while it advances included, leaves the rest of the scan of that directory
\* in place: when the search has returned, every entry of a scanned
\* directory that no match precedes has been examined, printed if it
\* resolves to Target and enqueued if it is a subdirectory.
C17_EntryErrorKeepsScanning ==
    (ret = 0 /\ poolSize >= 1)
        => \A c \in Nodes :
             (/\ c # Root
              /\ kind[c] # "incErr"
              /\ Occurrences(dequeued, parent[c]) >= 1
              /\ \A m \in Children(parent[c]) : m < c => ~IsMatch(m))
                => /\ c \in examined
                   /\ IsMatch(c) => Matches(c) = 1
                   /\ (~IsSymlink(kind[c]) /\ IsTraversableDir(kind[c]))
                         => CopiesIn(c, pushed) = 1

\* C18: counter invariant.  Whenever queueLock is free runningCount is the
\* number of workers that have not exited and are not between their
\* decrement and their increment around the wait; runningCount stays within
\* 0..pool size (it never wraps); and runningCount = 0 implies that the
\* queue is empty and no worker holds a task.
C18_CounterInvariant ==
    SearchRan
        => /\ ~queueLock => runningCount = RunningWorkers
           /\ runningCount \in 0..poolSize
           /\ runningCount = 0
                => (taskQueue = <<>> /\ \A r \in Workers : ~Busy(r))

\* The counter invariant for the pools with at least one worker.
CounterInvariantOfPool == poolSize >= 1 => C18_CounterInvariant

\* C19: physical traversal only.  A child that is a symlink is never
\* enqueued, whatever it points to; every task but the seed is a real
\* directory, a child of a directory that was dequeued before; and no entry
\* is enqueued twice, so there are never more tasks than entries.
C19_PhysicalTraversalOnly ==
    /\ \A n \in Nodes : (n # Root /\ IsSymlink(kind[n])) => ~BagIn(n, pushed)
    /\ \A i \in 2..Len(enqueued) :
         /\ enqueued[i] # Root
         /\ IsRealDirectory(kind[enqueued[i]])
         /\ \E j \in 1..Len(dequeued) : dequeued[j] = parent[enqueued[i]]
    /\ \A i \in 1..Len(enqueued), j \in 1..Len(enqueued) :
         i < j => enqueued[i] # enqueued[j]
    /\ Len(enqueued) <= Cardinality(Nodes)

C19_Witness ==
    /\ ret = 0
    /\ Len(enqueued) >= 2
    /\ \E n \in Nodes :
         /\ kind[n] = "linkDirO"
         /\ n \in examined
         /\ CopiesIn(n, pushed) = 0
         /\ Occurrences(enqueued, n) = 0

\* C20: work completeness at return.  Whenever doSearch has returned 0 the
\* queue is empty and every task that was enqueued, the seed included, has
\* been dequeued once and processed to its end, for every pool size
\* hardware_concurrency() can give.
C20_WorkCompleteAtReturn ==
    ret = 0
        => /\ taskQueue = <<>>
           /\ Occurrences(dequeued, Root) = 1
           /\ dequeued = enqueued
           /\ \A r \in Workers : ~Busy(r)

\* Work completeness for the pools with at least one worker.
WorkCompleteOfPool == poolSize >= 1 => C20_WorkCompleteAtReturn

====
